---- MODULE Spec2Model ----
(***************************************************************************)
(* Model of the declarative workflow orchestrator of langgraph_builder.py: *)
(* the reference resolver (_resolve_inputs), the graph builder             *)
(* (build_graph), the node function of a step and the executor (execute).  *)
(***************************************************************************)
EXTENDS Integers, Sequences, FiniteSets, TLC

VARIABLES
    workflow_json,   \* the content of the workflow file, the input of the program
    workflow_config, \* self.workflow_config: None until load_workflow
    graph,           \* self.graph: None until build_graph
    pc,              \* where the caller of the builder is
    state,           \* the WorkflowState of the run: current_step, step_outputs
    node,            \* the node the compiled graph is at
    inputs,          \* what _resolve_inputs returned last
    call,            \* the agent whose execute is being called, None outside
    executed,        \* the step ids whose agent.execute was called in this run
    returned,        \* what each agent.execute of this run returned, by step id
    error,           \* the exception that reached the caller, None without
    run_result,      \* what execute() returned, None before
    warnings,        \* the warnings validate_output printed in this run
    runs             \* the number of execute() calls so far

vars == <<workflow_json, workflow_config, graph, pc, state, node, inputs, call,
          executed, returned, error, run_result, warnings, runs>>

(***************************************************************************)
(* Python values.  Every value carries its type tag, so that a number, a   *)
(* string, a mapping and a list are never confused: a dict is a function   *)
(* from keys (strings) to values, a list is a sequence of values, and a    *)
(* str is the sequence of its characters.                                  *)
(***************************************************************************)
Str(cs) == [t |-> "str", v |-> cs]
Num(n) == [t |-> "num", v |-> n]
Bool(b) == [t |-> "bool", v |-> b]
Dict(f) == [t |-> "dict", v |-> f]
List(s) == [t |-> "list", v |-> s]
None == [t |-> "none", v |-> 0]
EmptyDict == Dict(<<>>)
\* An exception that leaves the function instead of a value.
Raise(e) == [t |-> "raise", v |-> e]
IsRaise(x) == x.t = "raise"
isinstance_dict(x) == x.t = "dict"

\* Characters of the tokens used in templates.
LB == <<"{", "{">>
RB == <<"}", "}">>
DOT == <<".">>
W_config == <<"c", "o", "n", "f", "i", "g">>
W_output == <<"o", "u", "t", "p", "u", "t">>
W_leads == <<"l", "e", "a", "d", "s">>
W_s1 == <<"s", "1">>
W_s2 == <<"s", "2">>
W_s3 == <<"s", "3">>

RECURSIVE Join(_)
\* The string made of the characters cs.
Join(cs) == IF cs = <<>> THEN "" ELSE Head(cs) \o Join(Tail(cs))

RECURSIVE RunEnd(_, _)
\* Index of the first "}" of s at or after j, Len(s) + 1 when there is none:
\* the end of the greedy run [^}]+ of the pattern.
RunEnd(s, j) ==
    IF j > Len(s) THEN Len(s) + 1
    ELSE IF s[j] = "}" THEN j
    ELSE RunEnd(s, j + 1)

\* The pattern \{\{([^}]+)\}\} matches s starting at index i.
MatchAt(s, i) ==
    /\ i + 1 <= Len(s)
    /\ s[i] = "{"
    /\ s[i + 1] = "{"
    /\ LET k == RunEnd(s, i + 2)
       IN /\ k > i + 2
          /\ k + 1 <= Len(s)
          /\ s[k] = "}"
          /\ s[k + 1] = "}"

NoMatch == [found |-> FALSE, group |-> <<>>]

\* Mutant of re_search: re.fullmatch, the pattern must match the whole string.
re_search_FullMatch(s) ==
    IF MatchAt(s, 1) /\ RunEnd(s, 3) + 1 = Len(s)
    THEN [found |-> TRUE, group |-> SubSeq(s, 3, Len(s) - 2)]
    ELSE NoMatch

\* re.search(pattern, value): the leftmost match and its group(1).
re_search(s) ==
    IF \E i \in 1..Len(s) : MatchAt(s, i)
    THEN LET i == CHOOSE i \in 1..Len(s) :
                    /\ MatchAt(s, i)
                    /\ \A j \in 1..(i - 1) : ~MatchAt(s, j)
         IN [found |-> TRUE, group |-> SubSeq(s, i + 2, RunEnd(s, i + 2) - 1)]
    ELSE NoMatch

RECURSIVE SplitFrom(_, _, _)
\* str.split('.') of cs from index i on, cur being the characters of the part
\* read so far: "a..b" gives <<"a", "", "b">>.
SplitFrom(cs, i, cur) ==
    IF i > Len(cs) THEN <<Join(cur)>>
    ELSE IF cs[i] = "." THEN <<Join(cur)>> \o SplitFrom(cs, i + 1, <<>>)
    ELSE SplitFrom(cs, i + 1, Append(cur, cs[i]))

split(cs) == SplitFrom(cs, 1, <<>>)

\* dict.get(part, {}) on a dict.
dict_get(d, part) == IF part \in DOMAIN d.v THEN d.v[part] ELSE EmptyDict

RECURSIVE WalkConfig(_, _)
\* for part in parts[1:]: result = result.get(part, {}) -- with no isinstance
\* test: .get on a value that is not a dict raises AttributeError.
WalkConfig(result, parts) ==
    IF parts = <<>> THEN result
    ELSE IF ~isinstance_dict(result) THEN Raise("AttributeError")
    ELSE WalkConfig(dict_get(result, Head(parts)), Tail(parts))

RECURSIVE WalkOutput_Unguarded(_, _)
\* Mutant of WalkOutput: the walk without the isinstance test.
WalkOutput_Unguarded(result, parts) ==
    IF parts = <<>> THEN result
    ELSE IF ~isinstance_dict(result) THEN Raise("AttributeError")
    ELSE WalkOutput_Unguarded(dict_get(result, Head(parts)), Tail(parts))

RECURSIVE WalkOutput(_, _)
\* for part in parts[2:]: if isinstance(result, dict): result = result.get(part, {})
WalkOutput(result, parts) ==
    IF parts = <<>> THEN result
    ELSE IF isinstance_dict(result)
         THEN WalkOutput(dict_get(result, Head(parts)), Tail(parts))
         ELSE WalkOutput(result, Tail(parts))

\* Mutant of resolve_str: a reference to a step without a recorded output
\* becomes an empty mapping.
resolve_str_EmptyOnAbsent(value, step_outputs, static_config) ==
    LET match == re_search(value.v)
        parts == split(match.group)
    IN IF ~match.found THEN value
       ELSE IF parts[1] = "config"
            THEN WalkConfig(static_config, Tail(parts))
       ELSE IF Len(parts) >= 3
            THEN IF parts[1] \in DOMAIN step_outputs
                 THEN WalkOutput(step_outputs[parts[1]], Tail(Tail(parts)))
                 ELSE EmptyDict
       ELSE value

\* Mutant of resolve_str: the second segment is walked like the others.
resolve_str_KeepsSecond(value, step_outputs, static_config) ==
    LET match == re_search(value.v)
        parts == split(match.group)
    IN IF ~match.found THEN value
       ELSE IF parts[1] = "config"
            THEN WalkConfig(static_config, Tail(parts))
       ELSE IF Len(parts) >= 3 /\ parts[1] \in DOMAIN step_outputs
            THEN WalkOutput(step_outputs[parts[1]], Tail(parts))
       ELSE value

\* Mutant of resolve_str: a reference of two segments is resolved too, its
\* second segment being the first field.
resolve_str_TwoSegments(value, step_outputs, static_config) ==
    LET match == re_search(value.v)
        parts == split(match.group)
    IN IF ~match.found THEN value
       ELSE IF parts[1] = "config"
            THEN WalkConfig(static_config, Tail(parts))
       ELSE IF Len(parts) >= 2 /\ parts[1] \in DOMAIN step_outputs
            THEN WalkOutput(step_outputs[parts[1]], Tail(parts))
       ELSE value

\* resolve_value on a str: step_outputs is a function from step ids to values,
\* static_config the dict of the static configuration.
resolve_str(value, step_outputs, static_config) ==
    LET match == re_search(value.v)
        parts == split(match.group)
    IN IF ~match.found THEN value
       ELSE IF parts[1] = "config"
            THEN WalkConfig(static_config, Tail(parts))
       ELSE IF Len(parts) >= 3 /\ parts[1] \in DOMAIN step_outputs
            THEN WalkOutput(step_outputs[parts[1]], Tail(Tail(parts)))
       ELSE value

RECURSIVE resolve_value_NoElse(_, _, _)
\* Mutant of resolve_value: without the final else branch, so that a value
\* that is no str, dict or list falls off the end of the function.
resolve_value_NoElse(value, step_outputs, static_config) ==
    IF value.t = "str" THEN resolve_str(value, step_outputs, static_config)
    ELSE IF value.t = "dict"
         THEN LET r == [k \in DOMAIN value.v |->
                          resolve_value_NoElse(value.v[k], step_outputs,
                                               static_config)]
              IN IF \E k \in DOMAIN r : IsRaise(r[k])
                 THEN Raise("AttributeError")
                 ELSE Dict(r)
    ELSE IF value.t = "list"
         THEN LET r == [i \in 1..Len(value.v) |->
                          resolve_value_NoElse(value.v[i], step_outputs,
                                               static_config)]
              IN IF \E i \in 1..Len(value.v) : IsRaise(r[i])
                 THEN Raise("AttributeError")
                 ELSE List(r)
    ELSE None

RECURSIVE resolve_value(_, _, _)
\* resolve_value: a str is resolved, a dict and a list are resolved element by
\* element (an exception raised for one element leaves the comprehension),
\* any other value is returned as it is.
resolve_value(value, step_outputs, static_config) ==
    IF value.t = "str" THEN resolve_str(value, step_outputs, static_config)
    ELSE IF value.t = "dict"
         THEN LET r == [k \in DOMAIN value.v |->
                          resolve_value(value.v[k], step_outputs, static_config)]
              IN IF \E k \in DOMAIN r : IsRaise(r[k])
                 THEN Raise("AttributeError")
                 ELSE Dict(r)
    ELSE IF value.t = "list"
         THEN LET r == [i \in 1..Len(value.v) |->
                          resolve_value(value.v[i], step_outputs, static_config)]
              IN IF \E i \in 1..Len(value.v) : IsRaise(r[i])
                 THEN Raise("AttributeError")
                 ELSE List(r)
    ELSE value

\* _resolve_inputs(input_config, step_outputs, static_config)
resolve_inputs(input_config, step_outputs, static_config) ==
    resolve_value(input_config, step_outputs, static_config)

(***************************************************************************)
(* The workflow files of the model.                                        *)
(***************************************************************************)
\* Longest step list of a workflow file.
MaxSteps == 3
\* Number of execute() calls on one compiled graph.
MaxRuns == 2

StepIds == {"s1", "s2", "s3"}

AGENT_REGISTRY ==
    {"ProspectSearchAgent", "DataEnrichmentAgent", "ScoringAgent",
     "OutreachContentAgent", "OutreachExecutorAgent", "ResponseTrackerAgent",
     "FeedbackTrainerAgent"}

\* The static configuration of the workflow files.
StaticConfig == Dict("min_score" :> Num(50))

\* The characters of the words written in templates.
Chars ==
    "s1" :> W_s1 @@ "s2" :> W_s2 @@ "s3" :> W_s3 @@ "leads" :> W_leads
        @@ "count" :> <<"c", "o", "u", "n", "t">>
        @@ "output" :> W_output @@ "" :> <<>>
        @@ "a" :> <<"a">> @@ "b" :> <<"b">> @@ "c" :> <<"c">>
        @@ "n" :> <<"n">> @@ "x" :> <<"x">> @@ "ok" :> <<"o", "k">>
        @@ "A" :> <<"A">> @@ "B" :> <<"B">> @@ "y" :> <<"y">> @@ "v" :> <<"v">>
        @@ "API_KEY" :> <<"A", "P", "I", "_", "K", "E", "Y">>

RECURSIVE DotPath(_)
\* ".<w1>.<w2>..." for the words of path
DotPath(path) ==
    IF path = <<>> THEN <<>>
    ELSE DOT \o Chars[Head(path)] \o DotPath(Tail(path))

\* "{{config.<p1>.<p2>...}}"
ConfigRef(path) == Str(LB \o W_config \o DotPath(path) \o RB)
\* "{{<id>.<second>.<f1>.<f2>...}}"
StepRefPath(id, second, path) ==
    Str(LB \o Chars[id] \o DOT \o Chars[second] \o DotPath(path) \o RB)
\* "{{<id>.output.<field>}}"
OutputRef(id, field) == StepRefPath(id, "output", <<field>>)
\* "{{config.min_score}}"
RefMinScore == Str(LB \o W_config \o DOT \o <<"m", "i", "n", "_">> \o <<"s", "c", "o", "r", "e">> \o RB)
\* "{{config.min_score.x}}": walks into the number 50
RefIntoNumber == Str(LB \o W_config \o DOT \o <<"m", "i", "n", "_">> \o <<"s", "c", "o", "r", "e">> \o DOT \o <<"x">> \o RB)

\* The kinds of step of the workflow files: the agent, the input template, the
\* tools and the keys of output_schema in their order.
StepKinds ==
    {[agent |-> "ProspectSearchAgent",
      inputs |-> Dict("limit" :> Num(5)),
      tools |-> List(<<>>),
      output_schema |-> <<"leads">>],
     [agent |-> "ScoringAgent",
      inputs |-> Dict("leads" :> OutputRef("s1", "leads")
                      @@ "count" :> OutputRef("s2", "count")
                      @@ "min" :> RefMinScore),
      tools |-> List(<<Dict("name" :> Str(<<"x">>)
                            @@ "config" :> Dict("key" :> Str(LB \o <<"A", "P", "I", "_", "K", "E", "Y">> \o RB)
                                                @@ "url" :> Str(LB \o <<"U">> \o RB)))>>),
      output_schema |-> <<"leads", "count">>],
     [agent |-> "EchoAgent",
      inputs |-> Dict("x" :> Num(1)),
      tools |-> List(<<>>),
      output_schema |-> <<>>],
     [agent |-> "ScoringAgent",
      inputs |-> Dict("m" :> RefIntoNumber),
      tools |-> List(<<>>),
      output_schema |-> <<>>]}

\* A step object of the workflow file with all the fields of WorkflowStep.
StepSpecs ==
    {[id |-> i, agent |-> k.agent, inputs |-> k.inputs,
      instructions |-> Str(<<"g", "o">>), tools |-> k.tools,
      output_schema |-> k.output_schema] : i \in StepIds, k \in StepKinds}

StepLists == UNION {[1..n -> StepSpecs] : n \in 0..MaxSteps}

\* The JSON object of a workflow file with all the fields of WorkflowConfig.
WorkflowData(config, steps) ==
    [workflow_name |-> Str(<<"w">>), description |-> Str(<<"d">>),
     config |-> config, steps |-> steps]

\* No file at workflow_path.
FileMissing == [t |-> "missing", v |-> 0]
\* A file that is not JSON.
FileUnparseable == [t |-> "text", v |-> 0]

\* The JSON object r without its key f.
Without(r, f) == [k \in DOMAIN r \ {f} |-> r[k]]

StepA ==
    [id |-> "s1", agent |-> "ProspectSearchAgent",
     inputs |-> Dict("limit" :> Num(5)),
     instructions |-> Str(<<"g", "o">>), tools |-> List(<<>>),
     output_schema |-> <<"leads">>]
StepB ==
    [id |-> "s2", agent |-> "ScoringAgent",
     inputs |-> Dict("leads" :> OutputRef("s1", "leads") @@ "min" :> RefMinScore),
     instructions |-> Str(<<"g", "o">>), tools |-> List(<<>>),
     output_schema |-> <<"leads", "count">>]
ValidData == WorkflowData(StaticConfig, <<StepA, StepB>>)

\* JSON objects without a required field of WorkflowConfig or WorkflowStep.
MissingFieldData ==
    {Without(ValidData, "steps"),
     Without(ValidData, "workflow_name"),
     [ValidData EXCEPT !.steps = <<StepA, Without(StepB, "instructions")>>],
     [ValidData EXCEPT !.steps = <<Without(StepA, "agent"), StepB>>]}

\* JSON objects with a field of another type than declared: config a number,
\* inputs a list.
WrongTypeData ==
    {[ValidData EXCEPT !.config = Num(5)],
     [ValidData EXCEPT !.steps = <<StepA, [StepB EXCEPT !.inputs = List(<<Num(1)>>)]>>]}

\* JSON objects that omit config, tools, output_schema.
OmitsConfig == Without(ValidData, "config")
OmitsTools ==
    [ValidData EXCEPT !.steps = <<Without(StepA, "tools"), Without(StepB, "tools")>>]
OmitsOutputSchema ==
    [ValidData EXCEPT !.steps = <<StepA, Without(StepB, "output_schema")>>]
OmittedFieldData == {OmitsConfig, OmitsTools, OmitsOutputSchema}

WorkflowFiles ==
    {[t |-> "file", v |-> WorkflowData(StaticConfig, s)] : s \in StepLists}
        \cup {[t |-> "file", v |-> d] :
                  d \in MissingFieldData \cup WrongTypeData \cup OmittedFieldData}
        \cup {FileMissing, FileUnparseable}

\* What an agent's execute may return, whatever the agent (the capability is
\* opaque to the orchestrator): a complete output, an output with a key more
\* than declared, an output without the declared keys.
CapOutputs ==
    {Dict("leads" :> List(<<Num(1), Num(2)>>) @@ "count" :> Num(2)),
     Dict("leads" :> Dict("n" :> Num(1)) @@ "extra" :> Bool(TRUE)),
     EmptyDict}

\* No exception.
NoError == [type |-> "none", arg |-> ""]

\* What an agent's execute may raise.
CapErrors ==
    {[type |-> "KeyError", arg |-> "employee_count"],
     [type |-> "ZeroDivisionError", arg |-> "division by zero"]}

(***************************************************************************)
(* load_workflow                                                           *)
(***************************************************************************)
\* WorkflowStep(**step): the required fields are there and the fields have
\* the declared types (tools has a default); the str fields of the workflow
\* files are strings all.
ValidWorkflowStep(step) ==
    /\ {"id", "agent", "inputs", "instructions", "output_schema"} \subseteq DOMAIN step
    /\ step.inputs.t = "dict"
    /\ "tools" \in DOMAIN step => step.tools.t = "list"

\* WorkflowConfig(**workflow_data): the required fields are there and the
\* fields have the declared types (config has a default), for every step too.
ValidWorkflowConfig(data) ==
    /\ {"workflow_name", "description", "steps"} \subseteq DOMAIN data
    /\ "config" \in DOMAIN data => data.config.t = "dict"
    /\ \A i \in 1..Len(data.steps) : ValidWorkflowStep(data.steps[i])

\* Mutant of validate_workflow_json: the required fields are tested, the
\* types of the fields are not.
validate_workflow_json_NoTypes(file) ==
    IF file.t = "missing"
    THEN Raise([type |-> "FileNotFoundError", arg |-> "workflow.json"])
    ELSE IF file.t = "text"
    THEN Raise([type |-> "ValueError", arg |-> "Invalid JSON in workflow file"])
    ELSE IF /\ {"workflow_name", "description", "steps"} \subseteq DOMAIN file.v
            /\ \A i \in 1..Len(file.v.steps) :
                  {"id", "agent", "inputs", "instructions", "output_schema"}
                      \subseteq DOMAIN file.v.steps[i]
    THEN file
    ELSE Raise([type |-> "ValueError", arg |-> "Workflow validation failed"])

\* validate_workflow_json: the data of the file as json.load returned it (not
\* the validated model), or the exception raised.
validate_workflow_json(file) ==
    IF file.t = "missing"
    THEN Raise([type |-> "FileNotFoundError", arg |-> "workflow.json"])
    ELSE IF file.t = "text"
    THEN Raise([type |-> "ValueError", arg |-> "Invalid JSON in workflow file"])
    ELSE IF ~ValidWorkflowConfig(file.v)
    THEN Raise([type |-> "ValueError", arg |-> "Workflow validation failed"])
    ELSE file

(***************************************************************************)
(* build_graph                                                             *)
(***************************************************************************)
\* END of langgraph.graph
END == "__end__"

RECURSIVE AddNodes_Overwrite(_, _, _)
\* Mutant of AddNodes: add_node replaces the node of an id that is already a
\* node, as a dict assignment would.
AddNodes_Overwrite(steps, i, nodes) ==
    IF i > Len(steps) THEN [t |-> "nodes", v |-> nodes]
    ELSE AddNodes_Overwrite(steps, i + 1,
                            [k \in DOMAIN nodes \cup {steps[i].id} |->
                                 IF k = steps[i].id THEN steps[i] ELSE nodes[k]])

RECURSIVE AddNodes(_, _, _)
\* for step in steps: workflow.add_node(step_id, node_func); StateGraph.add_node
\* raises ValueError for an id that is already a node.  nodes maps an id to
\* the step its node function closes over.
AddNodes(steps, i, nodes) ==
    IF i > Len(steps) THEN [t |-> "nodes", v |-> nodes]
    ELSE IF steps[i].id \in DOMAIN nodes
         THEN Raise([type |-> "ValueError", arg |-> steps[i].id])
    ELSE AddNodes(steps, i + 1,
                  [k \in DOMAIN nodes \cup {steps[i].id} |->
                       IF k = steps[i].id THEN steps[i] ELSE nodes[k]])

\* Mutant of ChainEdges: every step is wired to END.
ChainEdges_AllToEnd(steps) == {<<steps[i].id, END>> : i \in 1..Len(steps)}

\* Mutant of ChainEdges: the edges are added backwards, steps[i+1] -> steps[i],
\* and the first step is wired to END.
ChainEdges_Backwards(steps) ==
    {<<steps[i + 1].id, steps[i].id>> : i \in 1..(Len(steps) - 1)}
        \cup {<<steps[1].id, END>>}

\* The edges build_graph adds: steps[i] -> steps[i+1], then steps[-1] -> END.
ChainEdges(steps) ==
    {<<steps[i].id, steps[i + 1].id>> : i \in 1..(Len(steps) - 1)}
        \cup {<<steps[Len(steps)].id, END>>}

\* Mutant of build_graph: an empty step list gives a graph whose entry point
\* is END.
build_graph_EmptyIsGraph(config) ==
    LET steps == config.v.steps
        added == AddNodes(steps, 1, <<>>)
    IN IF IsRaise(added) THEN added
       ELSE [t |-> "graph",
             v |-> [nodes |-> added.v,
                    entry_point |-> IF steps = <<>> THEN END ELSE steps[1].id,
                    edges |-> IF steps = <<>> THEN {} ELSE ChainEdges(steps)]]

\* build_graph: the compiled graph, or the exception raised (steps[0] of an
\* empty list raises IndexError).
build_graph(config) ==
    LET steps == config.v.steps
        added == AddNodes(steps, 1, <<>>)
    IN IF IsRaise(added) THEN added
       ELSE IF steps = <<>>
            THEN Raise([type |-> "IndexError", arg |-> "list index out of range"])
       ELSE [t |-> "graph",
             v |-> [nodes |-> added.v,
                    entry_point |-> steps[1].id,
                    edges |-> ChainEdges(steps)]]

\* The node the compiled graph runs after node n.
NextNode(g, n) == (CHOOSE e \in g.v.edges : e[1] = n)[2]

(***************************************************************************)
(* node_function and the agents                                            *)
(***************************************************************************)
\* self.workflow_config.get('config', {})
StaticConfigOf(loaded) ==
    IF "config" \in DOMAIN loaded.v THEN loaded.v.config ELSE EmptyDict

\* step_config.get('output_schema', {}) of BaseAgent.__init__
OutputSchemaOf(step) ==
    IF "output_schema" \in DOMAIN step THEN step.output_schema ELSE <<>>

\* Mutant of Registered: the lookup falls back to a default agent class.
Registered_Always(agent_class_name) == TRUE

\* agent_class = AGENT_REGISTRY.get(agent_class_name); if not agent_class: raise
Registered(agent_class_name) == agent_class_name \in AGENT_REGISTRY

\* Mutant of record: an output already recorded is kept (setdefault).
record_KeepFirst(step_outputs, step_id, output) ==
    [k \in DOMAIN step_outputs \cup {step_id} |->
        IF k \in DOMAIN step_outputs THEN step_outputs[k] ELSE output]

\* Mutant of record: an empty placeholder is stored in place of the output.
record_Placeholder(step_outputs, step_id, output) ==
    [k \in DOMAIN step_outputs \cup {step_id} |->
        IF k = step_id THEN EmptyDict ELSE step_outputs[k]]

\* Mutant of record: the mapping is replaced by one holding this output only.
record_Replace(step_outputs, step_id, output) ==
    [k \in {step_id} |-> output]

\* state['step_outputs'][step_id] = output
record(step_outputs, step_id, output) ==
    [k \in DOMAIN step_outputs \cup {step_id} |->
        IF k = step_id THEN output ELSE step_outputs[k]]

\* Mutant of validate_output: a missing key goes unreported.
validate_output_Silent(step_id, output_schema, output) == <<>>

RECURSIVE validate_output(_, _, _)
\* BaseAgent.validate_output: the warning printed for the first key of
\* output_schema that the output lacks (it returns False there), none when
\* no key is missing.
validate_output(step_id, output_schema, output) ==
    IF output_schema = <<>> THEN <<>>
    ELSE IF Head(output_schema) \notin DOMAIN output.v
         THEN <<[step |-> step_id, key |-> Head(output_schema)]>>
    ELSE validate_output(step_id, Tail(output_schema), output)

\* The characters [A-Z_] of the pattern.
UpperOrUnderscore ==
    {"A", "B", "C", "D", "E", "F", "G", "H", "I", "J", "K", "L", "M", "N", "O",
     "P", "Q", "R", "S", "T", "U", "V", "W", "X", "Y", "Z", "_"}

RECURSIVE NameEnd(_, _)
\* Index of the first character of s at or after j that is not in [A-Z_],
\* Len(s) + 1 when there is none: the end of the greedy run [A-Z_]+.
NameEnd(s, j) ==
    IF j > Len(s) THEN Len(s) + 1
    ELSE IF s[j] \notin UpperOrUnderscore THEN j
    ELSE NameEnd(s, j + 1)

\* The pattern \{\{([A-Z_]+)\}\} matches s starting at index i.
EnvMatchAt(s, i) ==
    /\ i + 1 <= Len(s)
    /\ s[i] = "{"
    /\ s[i + 1] = "{"
    /\ LET k == NameEnd(s, i + 2)
       IN /\ k > i + 2
          /\ k + 1 <= Len(s)
          /\ s[k] = "}"
          /\ s[k + 1] = "}"

RECURSIVE findall(_, _)
\* re.findall(pattern, value) from index i on: the group of every match,
\* left to right, the matches not overlapping.
findall(s, i) ==
    IF i > Len(s) THEN <<>>
    ELSE IF EnvMatchAt(s, i)
         THEN <<SubSeq(s, i + 2, NameEnd(s, i + 2) - 1)>>
                  \o findall(s, NameEnd(s, i + 2) + 2)
    ELSE findall(s, i + 1)

\* old occurs in s at index i.
OccursAt(s, old, i) ==
    /\ i + Len(old) - 1 <= Len(s)
    /\ SubSeq(s, i, i + Len(old) - 1) = old

RECURSIVE replace(_, _, _, _)
\* str.replace(old, new) of s from index i on: every occurrence of old, left
\* to right, becomes new.
replace(s, old, new, i) ==
    IF i > Len(s) THEN <<>>
    ELSE IF OccursAt(s, old, i)
         THEN new \o replace(s, old, new, i + Len(old))
    ELSE <<s[i]>> \o replace(s, old, new, i + 1)

\* Mutant of getenv: a variable that is not set keeps its placeholder.
getenv_KeepsPlaceholder(env, name) ==
    IF Join(name) \in DOMAIN env THEN env[Join(name)] ELSE LB \o name \o RB

\* os.getenv(match, ''): env maps the names of the variables that are set to
\* their values.
getenv(env, name) == IF Join(name) \in DOMAIN env THEN env[Join(name)] ELSE <<>>

RECURSIVE ReplaceMatches(_, _, _)
\* for match in matches: value = value.replace('{{match}}', env_value)
ReplaceMatches(s, matches, env) ==
    IF matches = <<>> THEN s
    ELSE ReplaceMatches(replace(s, LB \o Head(matches) \o RB,
                                getenv(env, Head(matches)), 1),
                        Tail(matches), env)

RECURSIVE replace_value(_, _)
\* replace_value of replace_env_variables
replace_value(value, env) ==
    IF value.t = "str"
    THEN Str(ReplaceMatches(value.v, findall(value.v, 1), env))
    ELSE IF value.t = "dict"
    THEN Dict([k \in DOMAIN value.v |-> replace_value(value.v[k], env)])
    ELSE IF value.t = "list"
    THEN List([i \in 1..Len(value.v) |-> replace_value(value.v[i], env)])
    ELSE value

replace_env_variables(config, env) == replace_value(config, env)

RECURSIVE ToolsLoop(_, _, _)
\* for tool in step.get('tools', []): tools[tool['name']] =
\*     replace_env_variables(tool.get('config', {}))
ToolsLoop(tool_list, tools, env) ==
    IF tool_list = <<>> THEN tools
    ELSE LET tool == Head(tool_list)
             tool_name == Join(tool.v["name"].v)
             tool_config == replace_env_variables(dict_get(tool, "config"), env)
         IN ToolsLoop(Tail(tool_list),
                      [k \in DOMAIN tools \cup {tool_name} |->
                          IF k = tool_name THEN tool_config ELSE tools[k]],
                      env)

\* load_tools_config(step)
load_tools_config(step, env) ==
    Dict(ToolsLoop(IF "tools" \in DOMAIN step THEN step.tools.v ELSE <<>>,
                   <<>>, env))

\* The environment of the process: the variables that are set.
ProcessEnv == "API_KEY" :> <<"x", "y">>

\* initial_state of execute()
InitialState == [current_step |-> "", step_outputs |-> <<>>]

(***************************************************************************)
(* The program: main() loads the workflow, builds the graph and executes   *)
(* it; the compiled graph can be executed again.                           *)
(***************************************************************************)
Init ==
    /\ workflow_json \in WorkflowFiles
    /\ workflow_config = None
    /\ graph = None
    /\ pc = "start"
    /\ state = InitialState
    /\ node = ""
    /\ inputs = None
    /\ call = None
    /\ executed = <<>>
    /\ returned = <<>>
    /\ error = NoError
    /\ run_result = None
    /\ warnings = <<>>
    /\ runs = 0

\* load_workflow: an exception of validate_workflow_json is logged and raised
\* again, and main() ends.
load_workflow ==
    /\ pc = "start"
    /\ LET r == validate_workflow_json(workflow_json)
       IN IF IsRaise(r)
          THEN /\ error' = r.v
               /\ pc' = "aborted"
               /\ UNCHANGED workflow_config
          ELSE /\ workflow_config' = r
               /\ pc' = "loaded"
               /\ UNCHANGED error
    /\ UNCHANGED <<workflow_json, graph, state, node, inputs, call, executed,
                   returned, run_result, warnings, runs>>

\* build_graph(): an exception ends main().
BuildGraph ==
    /\ pc = "loaded"
    /\ LET g == build_graph(workflow_config)
       IN IF IsRaise(g)
          THEN /\ error' = g.v
               /\ pc' = "aborted"
               /\ UNCHANGED graph
          ELSE /\ graph' = g
               /\ pc' = "built"
               /\ UNCHANGED error
    /\ UNCHANGED <<workflow_json, workflow_config, state, node, inputs, call,
                   executed, returned, run_result, warnings, runs>>

\* Mutant of Execute: the state of the run is built once and passed to every
\* graph.invoke, so that a run starts on what the run before left in it.
Execute_KeepsState ==
    /\ pc \in {"built", "done", "failed"}
    /\ runs < MaxRuns
    /\ runs' = runs + 1
    /\ state' = state
    /\ node' = graph.v.entry_point
    /\ pc' = "running"
    /\ inputs' = None
    /\ call' = None
    /\ executed' = <<>>
    /\ returned' = <<>>
    /\ error' = NoError
    /\ run_result' = None
    /\ warnings' = <<>>
    /\ UNCHANGED <<workflow_json, workflow_config, graph>>

\* execute() up to graph.invoke(initial_state): a new run of the compiled graph
\* from its entry point.
Execute ==
    /\ pc \in {"built", "done", "failed"}
    /\ runs < MaxRuns
    /\ runs' = runs + 1
    /\ state' = InitialState
    /\ node' = graph.v.entry_point
    /\ pc' = "running"
    /\ inputs' = None
    /\ call' = None
    /\ executed' = <<>>
    /\ returned' = <<>>
    /\ error' = NoError
    /\ run_result' = None
    /\ warnings' = <<>>
    /\ UNCHANGED <<workflow_json, workflow_config, graph>>

\* Mutant of NodeEnterWith: the inputs are resolved in place, the resolved
\* values written into the step's own inputs template.
NodeEnterWith_InPlace(added) ==
    /\ pc = "running"
    /\ node # END
    /\ LET step == graph.v.nodes[node]
           r == resolve_inputs(step.inputs, state.step_outputs,
                               StaticConfigOf(workflow_config))
       IN IF ~(Registered(step.agent) \/ step.agent \in added)
          THEN /\ error' = [type |-> "ValueError", arg |-> step.agent]
               /\ pc' = "failed"
               /\ UNCHANGED <<inputs, call, executed, graph>>
          ELSE IF IsRaise(r)
          THEN /\ error' = [type |-> r.v, arg |-> "get"]
               /\ pc' = "failed"
               /\ inputs' = r
               /\ UNCHANGED <<call, executed, graph>>
          ELSE /\ inputs' = r
               /\ graph' = [graph EXCEPT !.v.nodes[node].inputs = r]
               /\ call' = [t |-> "agent",
                           v |-> [step_id |-> step.id,
                                  agent_name |-> step.agent,
                                  tools_config |-> load_tools_config(step, ProcessEnv),
                                  output_schema |-> OutputSchemaOf(step)]]
               /\ executed' = Append(executed, step.id)
               /\ pc' = "in_execute"
               /\ UNCHANGED error
    /\ UNCHANGED <<workflow_json, workflow_config, state, node, returned,
                   run_result, warnings, runs>>

\* node_function up to the call of agent.execute: load_tools_config, the
\* registry lookup, the construction of the agent with the tools config and
\* the resolution of the inputs.  An unknown
\* agent and an exception of _resolve_inputs leave node_function outside its
\* try block, and graph.invoke and execute() raise them to the caller.
\* added holds the names the caller has put into AGENT_REGISTRY besides the
\* seven of the module.
NodeEnterWith(added) ==
    /\ pc = "running"
    /\ node # END
    /\ LET step == graph.v.nodes[node]
           r == resolve_inputs(step.inputs, state.step_outputs,
                               StaticConfigOf(workflow_config))
       IN IF ~(Registered(step.agent) \/ step.agent \in added)
          THEN /\ error' = [type |-> "ValueError", arg |-> step.agent]
               /\ pc' = "failed"
               /\ UNCHANGED <<inputs, call, executed>>
          ELSE IF IsRaise(r)
          THEN /\ error' = [type |-> r.v, arg |-> "get"]
               /\ pc' = "failed"
               /\ inputs' = r
               /\ UNCHANGED <<call, executed>>
          ELSE /\ inputs' = r
               /\ call' = [t |-> "agent",
                           v |-> [step_id |-> step.id,
                                  agent_name |-> step.agent,
                                  tools_config |-> load_tools_config(step, ProcessEnv),
                                  output_schema |-> OutputSchemaOf(step)]]
               /\ executed' = Append(executed, step.id)
               /\ pc' = "in_execute"
               /\ UNCHANGED error
    /\ UNCHANGED <<workflow_json, workflow_config, graph, state, node, returned,
                   run_result, warnings, runs>>

NodeEnter == NodeEnterWith({})

\* agent.execute returns one of outputs: it has validated its output (a
\* warning at most), and node_function records the output, moves the cursor
\* and returns the state; the graph goes to the next node.
AgentReturnsOneOf(outputs) ==
    /\ pc = "in_execute"
    /\ \E output \in outputs :
          /\ warnings' = warnings \o validate_output(call.v.step_id,
                                                     call.v.output_schema, output)
          /\ state' = [current_step |-> call.v.step_id,
                       step_outputs |-> record(state.step_outputs,
                                               call.v.step_id, output)]
          /\ returned' = [k \in DOMAIN returned \cup {call.v.step_id} |->
                             IF k = call.v.step_id THEN output ELSE returned[k]]
    /\ node' = NextNode(graph, node)
    /\ call' = None
    /\ pc' = "running"
    /\ UNCHANGED <<workflow_json, workflow_config, graph, inputs, executed,
                   error, run_result, runs>>

AgentReturns == AgentReturnsOneOf(CapOutputs)

\* Mutant of AgentRaises: the except block does not raise
\* again, and the graph goes on to the next node.
AgentRaises_Swallowed ==
    /\ pc = "in_execute"
    /\ \E e \in CapErrors : error' = e
    /\ call' = None
    /\ pc' = "running"
    /\ node' = (CHOOSE e \in graph.v.edges : e[1] = node)[2]
    /\ UNCHANGED <<workflow_json, workflow_config, graph, state, inputs,
                   executed, returned, run_result, warnings, runs>>

\* Mutant of AgentRaises: the cursor is moved to the step before the exception
\* is raised again.
AgentRaises_MovesCursor ==
    /\ pc = "in_execute"
    /\ \E e \in CapErrors : error' = e
    /\ state' = [state EXCEPT !.current_step = call.v.step_id]
    /\ call' = None
    /\ pc' = "failed"
    /\ UNCHANGED <<workflow_json, workflow_config, graph, node, inputs,
                   executed, returned, run_result, warnings, runs>>

\* agent.execute raises: node_function logs the exception and raises it
\* again, and so do graph.invoke and execute().
AgentRaises ==
    /\ pc = "in_execute"
    /\ \E e \in CapErrors : error' = e
    /\ call' = None
    /\ pc' = "failed"
    /\ UNCHANGED <<workflow_json, workflow_config, graph, state, node, inputs,
                   executed, returned, run_result, warnings, runs>>

\* Mutant of Finish: graph.invoke does not return at END.
Finish_Stalls ==
    /\ pc = "running"
    /\ node = END
    /\ UNCHANGED vars

\* The graph reached END: graph.invoke returns the final state and execute()
\* returns its step_outputs.
Finish ==
    /\ pc = "running"
    /\ node = END
    /\ run_result' = Dict(state.step_outputs)
    /\ pc' = "done"
    /\ UNCHANGED <<workflow_json, workflow_config, graph, state, node, inputs,
                   call, executed, returned, error, warnings, runs>>

Next ==
    \/ load_workflow
    \/ BuildGraph
    \/ Execute
    \/ NodeEnter
    \/ AgentReturns
    \/ AgentRaises
    \/ Finish

Spec == Init /\ [][Next]_vars

\* node_function can start exactly when the graph is at a node that is not
\* END: each of its three outcomes (unknown agent, resolution error, call of
\* agent.execute) is a step from there.
NodeEnterEnabled == pc = "running" /\ node # END

\* The steps of the program other than the start of a node function; the
\* program is sequential, so at most one of them is possible in a state.
Progress ==
    \/ load_workflow
    \/ BuildGraph
    \/ AgentReturns
    \/ AgentRaises
    \/ Finish

\* Weak fairness of NodeEnter, with its enabling condition written out.
NodeEnterFair == ([]<>~NodeEnterEnabled) \/ ([]<><<NodeEnter>>_vars)

\* The program when every call of agent.execute returns or raises: main() and
\* graph.invoke run their straight-line code to its end (load_workflow,
\* build_graph, the node functions, the return at END), and a call of
\* agent.execute that was made comes back.  Whether the caller starts
\* another run is left open.
SpecLive == Init /\ [][Next]_vars /\ WF_vars(Progress) /\ NodeEnterFair

(***************************************************************************)
(* Properties of a run.                                                    *)
(***************************************************************************)
\* The step list of the loaded workflow.
Steps == workflow_config.v.steps
\* The ids of the first n steps, in their declared order.
DeclaredIds(n) == [i \in 1..n |-> Steps[i].id]
\* The exception that reached the caller is one an agent's execute raised.
CapabilityFailed == pc = "failed" /\ error \in CapErrors

\* C1: in a run that reaches END, agent.execute was called for the steps in
\* exactly their declared order, each step once, from steps[0] to steps[-1].
C1_DeclaredOrder == pc = "done" => executed = DeclaredIds(Len(Steps))

C1_Witness == pc = "done" /\ Len(executed) = 3 /\ executed[1] # "s1"

\* C2: when step N+1 has resolved its inputs, the output step N returned is
\* recorded whole in step_outputs, the inputs are the template resolved against
\* the outputs the earlier steps returned, and a reference {{N.output.field}}
\* has become the value of that field in the output step N returned.
C2_OutputRecordedBeforeResolve ==
    (pc = "in_execute" /\ Len(executed) >= 2) =>
        LET prev == Steps[Len(executed) - 1].id
            cur == Steps[Len(executed)]
        IN /\ prev \in DOMAIN state.step_outputs
           /\ state.step_outputs[prev] = returned[prev]
           /\ inputs = resolve_inputs(cur.inputs, returned,
                                      StaticConfigOf(workflow_config))
           /\ \A k \in DOMAIN cur.inputs.v : \A f \in {"leads", "count"} :
                 (cur.inputs.v[k] = OutputRef(prev, f)
                      /\ f \in DOMAIN returned[prev].v)
                     => inputs.v[k] = returned[prev].v[f]

C2_Witness ==
    /\ pc = "in_execute"
    /\ Len(executed) = 3
    /\ Steps[2].id = "s2"
    /\ "count" \in DOMAIN inputs.v
    /\ inputs.v["count"] = Num(2)

\* The ids of the first n steps, as a set.
DeclaredIdSet(n) == {Steps[i].id : i \in 1..n}

\* C3 as claimed: when the capability of step k fails, the run state holds
\* exactly the outputs of the steps before k, and the error that reaches the
\* caller names step k.
C3_Original ==
    CapabilityFailed =>
        LET k == Len(executed)
        IN /\ executed = DeclaredIds(k)
           /\ DOMAIN state.step_outputs = DeclaredIdSet(k - 1)
           /\ error.arg = Steps[k].id

\* C3, amended: when agent.execute of step k raises, the run aborts at once:
\* the exception reaches the caller as the agent raised it (no step id is added
\* to it), execute was called once for each of the steps 1..k and for no other,
\* step_outputs holds exactly the outputs the steps 1..k-1 returned, nothing is
\* recorded for step k, and the only step after the failure is a new run from
\* an empty state.
C3_AbortsOnCapabilityError ==
    /\ [](CapabilityFailed =>
            LET k == Len(executed)
            IN /\ k >= 1
               /\ executed = DeclaredIds(k)
               /\ node = Steps[k].id
               /\ DOMAIN state.step_outputs = DeclaredIdSet(k - 1)
               /\ DOMAIN returned = DeclaredIdSet(k - 1)
               /\ \A id \in DeclaredIdSet(k - 1) :
                     state.step_outputs[id] = returned[id]
               /\ call = None
               /\ run_result = None)
    /\ [][(pc = "in_execute" /\ returned' = returned) =>
            /\ pc' = "failed"
            /\ error' \in CapErrors
            /\ UNCHANGED <<state, executed, node, run_result>>]_vars
    /\ [][pc = "failed" =>
            /\ pc' = "running"
            /\ runs' = runs + 1
            /\ executed' = <<>>
            /\ state' = InitialState]_vars

C3_Witness ==
    /\ CapabilityFailed
    /\ Len(Steps) = 3
    /\ Len(executed) = 2
    /\ DOMAIN state.step_outputs = {Steps[1].id}

\* C4: the result of a run that reached END is keyed by exactly the step ids
\* of the workflow, and each value is the output that step's agent returned.
C4_ResultIsReturnedOutputs ==
    pc = "done" =>
        /\ run_result.t = "dict"
        /\ DOMAIN run_result.v = DeclaredIdSet(Len(Steps))
        /\ DOMAIN returned = DeclaredIdSet(Len(Steps))
        /\ \A id \in DOMAIN run_result.v : run_result.v[id] = returned[id]

C4_Witness ==
    /\ pc = "done"
    /\ Len(Steps) = 3
    /\ run_result.v[Steps[1].id] # run_result.v[Steps[2].id]
    /\ run_result.v[Steps[2].id] # run_result.v[Steps[3].id]

\* C6: a step whose agent is not in the registry aborts the run with the
\* unknown-agent ValueError before an agent is constructed or executed:
\* nothing is recorded for that step or a later one, and no later step runs.
C6_UnknownAgentAborts ==
    /\ []((pc = "failed" /\ error.type = "ValueError") =>
            LET k == Len(executed) + 1
            IN /\ node = Steps[k].id
               /\ error.arg = Steps[k].agent
               /\ error.arg \notin AGENT_REGISTRY
               /\ call = None
               /\ executed = DeclaredIds(k - 1)
               /\ DOMAIN state.step_outputs = DeclaredIdSet(k - 1)
               /\ run_result = None)
    /\ [][(pc = "running" /\ node # END
              /\ graph.v.nodes[node].agent \notin AGENT_REGISTRY) =>
            /\ pc' = "failed"
            /\ error' = [type |-> "ValueError", arg |-> graph.v.nodes[node].agent]
            /\ UNCHANGED <<state, executed, call, returned, node>>]_vars

C6_Witness ==
    /\ pc = "failed"
    /\ error.type = "ValueError"
    /\ Len(Steps) = 3
    /\ Len(executed) = 1
    /\ DOMAIN state.step_outputs = {Steps[1].id}

\* The keys of output_schema that output lacks.
MissingKeys(output_schema, output) ==
    {output_schema[i] : i \in 1..Len(output_schema)} \ DOMAIN output.v

\* C7: when agent.execute returns, whatever keys of output_schema the output
\* lacks, the output is recorded under the step's id, no exception is raised
\* and the graph goes on to the next declared step (END after the last); a
\* warning is printed exactly when a declared key is missing.
C7_ValidationNeverBlocks ==
    [][(pc = "in_execute" /\ returned' # returned) =>
         LET id == call.v.step_id
             k == Len(executed)
             missing == MissingKeys(call.v.output_schema, returned'[id])
         IN /\ id \in DOMAIN state'.step_outputs
            /\ state'.step_outputs[id] = returned'[id]
            /\ pc' = "running"
            /\ error' = NoError
            /\ node' = IF k < Len(Steps) THEN Steps[k + 1].id ELSE END
            /\ IF missing = {}
               THEN warnings' = warnings
               ELSE /\ Len(warnings') = Len(warnings) + 1
                    /\ SubSeq(warnings', 1, Len(warnings)) = warnings
                    /\ warnings'[Len(warnings')].step = id
                    /\ warnings'[Len(warnings')].key \in missing]_vars

C7_Witness ==
    /\ pc = "in_execute"
    /\ Len(executed) = 2
    /\ Len(warnings) = 1
    /\ warnings[1].step = Steps[1].id
    /\ state.step_outputs[Steps[1].id] = EmptyDict

\* load_workflow has returned the workflow.
Loaded == workflow_config # None
\* No two steps of the list share an id.
UniqueIds(steps) == \A i, j \in 1..Len(steps) : steps[i].id = steps[j].id => i = j
\* The edges of g that leave node n.
Outgoing(g, n) == {e \in g.v.edges : e[1] = n}

\* C14: a step list of length n >= 1 with unique ids is built into a graph
\* (build_graph does not fail on it) with one node per step id, entry point
\* steps[0].id, the n-1 edges steps[i].id -> steps[i+1].id and the edge
\* steps[n-1].id -> END and no other edge, so that every node has exactly
\* one outgoing edge and the graph is a single chain.
C14_GraphIsChain ==
    (Loaded /\ Steps # <<>> /\ UniqueIds(Steps) /\ pc # "loaded") =>
        LET n == Len(Steps)
        IN /\ pc # "aborted"
           /\ graph.t = "graph"
           /\ DOMAIN graph.v.nodes = DeclaredIdSet(n)
           /\ Cardinality(DOMAIN graph.v.nodes) = n
           /\ \A i \in 1..n : graph.v.nodes[Steps[i].id] = Steps[i]
           /\ graph.v.entry_point = Steps[1].id
           /\ \A i \in 1..(n - 1) : <<Steps[i].id, Steps[i + 1].id>> \in graph.v.edges
           /\ <<Steps[n].id, END>> \in graph.v.edges
           /\ Cardinality(graph.v.edges) = n
           /\ Cardinality({e \in graph.v.edges : e[2] = END}) = 1
           /\ \A id \in DOMAIN graph.v.nodes :
                 Cardinality(Outgoing(graph, id)) = 1

C14_Witness ==
    /\ pc = "built"
    /\ Len(Steps) = 3
    /\ graph.v.entry_point = "s2"
    /\ <<"s3", END>> \in graph.v.edges
    /\ <<"s1", "s3">> \in graph.v.edges

\* C15 as claimed: build_graph on an empty step list fails with
\* EmptySpecError.
C15_Original ==
    (Loaded /\ Steps = <<>> /\ pc = "aborted") => error.type = "EmptySpecError"

\* C15, amended: build_graph on an empty step list fails with the IndexError
\* of steps[0]: no graph is produced, main() ends and no run starts.
C15_EmptyListFails ==
    (Loaded /\ Steps = <<>>) =>
        /\ pc \in {"loaded", "aborted"}
        /\ pc = "aborted" => error = [type |-> "IndexError",
                                      arg |-> "list index out of range"]
        /\ graph = None
        /\ runs = 0
        /\ executed = <<>>
        /\ run_result = None

C15_Witness ==
    /\ Loaded
    /\ Steps = <<>>
    /\ pc = "aborted"
    /\ error.type = "IndexError"

\* C16 as claimed: build_graph on a step list with a repeated id fails with
\* DuplicateStepIdError.
C16_Original ==
    (Loaded /\ ~UniqueIds(Steps) /\ pc = "aborted") =>
        error.type = "DuplicateStepIdError"

\* C16, amended: build_graph on a step list with a repeated id fails with the
\* ValueError of add_node for the first repeated id: no graph is produced and
\* no run starts, and in every run each step id is executed once at most.
C16_DuplicateIdFails ==
    /\ (Loaded /\ ~UniqueIds(Steps)) =>
            /\ pc \in {"loaded", "aborted"}
            /\ pc = "aborted" =>
                  /\ error.type = "ValueError"
                  /\ \E i, j \in 1..Len(Steps) :
                        /\ i < j
                        /\ Steps[i].id = error.arg
                        /\ Steps[j].id = error.arg
            /\ graph = None
            /\ runs = 0
            /\ executed = <<>>
    /\ \A i, j \in 1..Len(executed) : executed[i] = executed[j] => i = j

C16_Witness ==
    /\ Loaded
    /\ Len(Steps) = 3
    /\ Steps[1].id # Steps[2].id
    /\ Steps[2].id = Steps[3].id
    /\ pc = "aborted"
    /\ error = [type |-> "ValueError", arg |-> Steps[3].id]

\* The workflow file holds a JSON object.
IsObject == workflow_json.t = "file"
\* The workflow file has every field with its declared type, and two of its
\* steps share an id.
DuplicateIdFile ==
    /\ IsObject
    /\ workflow_json.v \notin MissingFieldData \cup WrongTypeData \cup OmittedFieldData
    /\ ~UniqueIds(workflow_json.v.steps)
\* The workflow file is missing, is not JSON, lacks a required field or has a
\* field of the wrong type.
UnloadableFile ==
    \/ workflow_json \in {FileMissing, FileUnparseable}
    \/ IsObject /\ workflow_json.v \in MissingFieldData \cup WrongTypeData
\* main() ended in load_workflow: nothing is loaded, built or run.
LoadFailed ==
    /\ pc = "aborted"
    /\ ~Loaded
    /\ graph = None
    /\ runs = 0
    /\ executed = <<>>
    /\ run_result = None

C18_OmittedFieldsLoad ==
    (pc # "start" /\ IsObject /\ workflow_json.v \in OmittedFieldData) =>
        /\ Loaded
        /\ workflow_config = workflow_json
        /\ (pc = "in_execute" /\ workflow_json.v = OmitsConfig) =>
              inputs = resolve_inputs(graph.v.nodes[node].inputs,
                                      state.step_outputs, EmptyDict)

\* The id of the step that returned last in this run, "" before the first.
LastReturned ==
    IF DOMAIN returned = {} THEN ""
    ELSE Steps[Cardinality(DOMAIN returned)].id

\* C20: the graph is compiled once and stays as it is; every execute(), the
\* first and one that follows a run that ended or failed, starts at the entry
\* point steps[0] with step_outputs empty and current_step unset; all along
\* a run step_outputs holds the outputs returned in this run and no other
\* and current_step is the step that returned last in this run; and the only
\* step after a failure is such a new run: the failing step is not resumed.
C20_FreshStateEveryRun ==
    /\ [][graph # None => graph' = graph]_vars
    /\ [][runs' # runs =>
            /\ runs' = runs + 1
            /\ pc' = "running"
            /\ node' = Steps[1].id
            /\ state'.step_outputs = <<>>
            /\ state'.current_step = ""
            /\ run_result' = None
            /\ error' = NoError]_vars
    /\ [](runs >= 1 =>
            /\ DOMAIN state.step_outputs = DOMAIN returned
            /\ \A id \in DOMAIN returned : state.step_outputs[id] = returned[id]
            /\ DOMAIN returned = DeclaredIdSet(Cardinality(DOMAIN returned))
            /\ state.current_step = LastReturned)
    /\ [][(pc = "failed" \/ pc = "done") => runs' = runs + 1]_vars

C20_Witness ==
    /\ runs = 2
    /\ pc = "in_execute"
    /\ Len(Steps) = 3
    /\ executed = <<Steps[1].id>>
    /\ state = InitialState

\* A run of the graph is under way or has ended.
InRun == runs >= 1

\* A run is under way: execute() was called and has neither returned nor
\* raised.
RunUnderWay == pc = "running" \/ pc = "in_execute"
\* The run has ended: execute() returned the result or raised.
RunEnded == (pc = "done" /\ run_result # None) \/ (pc = "failed" /\ error # NoError)

\* C24: when every call of agent.execute returns or raises, every run that
\* was started ends: execute() returns the result at END or raises; and
\* agent.execute is called for a step only when no call is outstanding and the
\* calls of all the steps before it have returned.
C24_RunTerminates ==
    /\ RunUnderWay ~> RunEnded
    /\ [][executed' # executed /\ executed' # <<>> =>
            /\ pc = "running"
            /\ call = None
            /\ Len(executed') = Len(executed) + 1
            /\ \A i \in 1..Len(executed) : executed[i] \in DOMAIN returned]_vars

\* C24 witness: a run of three steps ended at END after the third call
\* returned.
C24_Witness ==
    /\ pc = "done"
    /\ Len(executed) = 3
    /\ DOMAIN returned = {"s1", "s2", "s3"}
    /\ run_result # None

\* C25: once loaded, the workflow and the compiled graph stay as they are all
\* along every run: each node still holds its step as the file has it, with
\* its tools, inputs template and output_schema, and the static config is the
\* file's; the inputs handed to execute and the tools config handed to the
\* agent are new values resolved from those templates, in a second run as in
\* the first.
C25_WorkflowImmutable ==
    /\ [][Loaded => workflow_config' = workflow_config]_vars
    /\ [][InRun => graph' = graph]_vars
    /\ [](InRun =>
            /\ workflow_config = workflow_json
            /\ \A i \in 1..Len(Steps) :
                  graph.v.nodes[Steps[i].id] = workflow_json.v.steps[i])
    /\ [](pc = "in_execute" =>
            LET step == workflow_json.v.steps[Len(executed)]
            IN /\ inputs = resolve_inputs(step.inputs, state.step_outputs,
                                          StaticConfigOf(workflow_json))
               /\ call.v.tools_config = load_tools_config(step, ProcessEnv))

\* C25 witness: in a second run the step s2 has its references resolved and
\* its tool's placeholder replaced, and the step in the graph still holds the
\* templates.
C25_Witness ==
    /\ runs = 2
    /\ pc = "in_execute"
    /\ executed = <<"s1", "s2">>
    /\ graph.v.nodes["s2"].agent = "ScoringAgent"
    /\ "leads" \in DOMAIN graph.v.nodes["s2"].inputs.v
    /\ graph.v.nodes["s2"].inputs.v["leads"] = OutputRef("s1", "leads")
    /\ "tools" \in DOMAIN graph.v.nodes["s2"]
    /\ Len(graph.v.nodes["s2"].tools.v) = 1
    /\ graph.v.nodes["s2"].tools.v[1].v["config"].v["key"]
           = Str(LB \o <<"A", "P", "I", "_", "K", "E", "Y">> \o RB)
    /\ inputs.v["leads"] = List(<<Num(1), Num(2)>>)
    /\ call.v.tools_config.v["x"].v["key"] = Str(<<"x", "y">>)
    /\ call.v.tools_config.v["x"].v["url"] = Str(<<>>)

\* C23: when agent.execute returns, validate_output has printed one warning
\* for each key of output_schema that the output lacks, naming that key, and
\* none for any other key: a key of the output that the schema does not
\* declare brings no warning.
C23_WarningPerMissingKey ==
    [][(pc = "in_execute" /\ returned' # returned) =>
         LET id == call.v.step_id
             missing == MissingKeys(call.v.output_schema, returned'[id])
             added == SubSeq(warnings', Len(warnings) + 1, Len(warnings'))
         IN /\ SubSeq(warnings', 1, Len(warnings)) = warnings
            /\ Len(added) = Cardinality(missing)
            /\ {added[i].key : i \in 1..Len(added)} = missing
            /\ \A i \in 1..Len(added) : added[i].step = id]_vars

\* C26: all along a run the ids that have an output in step_outputs are the
\* ids of the first k declared steps for some k; a transition of the run adds
\* at most one key, the id of the step whose execute just returned, and leaves
\* every key already there with the value it had.
C26_OutputsArePrefix ==
    /\ [](InRun =>
            \E k \in 0..Len(Steps) :
                /\ DOMAIN state.step_outputs = DeclaredIdSet(k)
                /\ Cardinality(DOMAIN state.step_outputs) = k)
    /\ [][(InRun /\ runs' = runs) =>
            /\ DOMAIN state.step_outputs \subseteq DOMAIN state'.step_outputs
            /\ \A id \in DOMAIN state.step_outputs :
                  state'.step_outputs[id] = state.step_outputs[id]
            /\ DOMAIN state'.step_outputs # DOMAIN state.step_outputs =>
                  /\ pc = "in_execute"
                  /\ DOMAIN state'.step_outputs
                        = DOMAIN state.step_outputs \cup {call.v.step_id}
                  /\ call.v.step_id = Steps[Len(executed)].id]_vars

C26_Witness ==
    /\ pc = "in_execute"
    /\ Len(Steps) = 3
    /\ Len(executed) = 3
    /\ DOMAIN state.step_outputs = {Steps[1].id, Steps[2].id}

\* C27: all along a run current_step is "" while step_outputs is empty and
\* otherwise the id of the step recorded last, which has an output in
\* step_outputs; the cursor moves only together with the recording of that
\* step's output, and a step that fails leaves the cursor and the outputs as
\* they were.
C27_CursorIsLastRecorded ==
    /\ [](InRun =>
            LET n == Cardinality(DOMAIN state.step_outputs)
            IN /\ state.current_step = IF n = 0 THEN "" ELSE Steps[n].id
               /\ state.current_step # "" =>
                     state.current_step \in DOMAIN state.step_outputs)
    /\ [][(InRun /\ runs' = runs /\ state'.current_step # state.current_step) =>
            /\ pc = "in_execute"
            /\ state'.current_step = call.v.step_id
            /\ state'.current_step \notin DOMAIN state.step_outputs
            /\ state'.current_step \in DOMAIN state'.step_outputs]_vars
    /\ [][pc' = "failed" => state' = state]_vars

C27_Witness ==
    /\ pc = "failed"
    /\ Len(Steps) = 3
    /\ Len(executed) = 3
    /\ error \in CapErrors
    /\ state.current_step = Steps[2].id

(***************************************************************************)
(* The reference resolver on its own: _resolve_inputs is applied once to a *)
(* template, the step outputs recorded so far and a static configuration.  *)
(***************************************************************************)
ResolveConfigs ==
    {Dict("a" :> Dict("b" :> Num(5))),
     Dict("a" :> List(<<Num(1)>>) @@ "x" :> Num(9)),
     Dict("a" :> Dict("b" :> Dict("c" :> Bool(FALSE))) @@ "x" :> Str(<<"h", "i">>)),
     EmptyDict}

ResolveOutputs ==
    {<<>>,
     "s1" :> Dict("leads" :> List(<<Num(1), Num(2), Num(3)>>)
                    @@ "count" :> Num(3) @@ "ok" :> Bool(TRUE)
                    @@ "n" :> Dict("x" :> None @@ "a" :> Str(<<"h", "i">>))),
     "s1" :> Dict("leads" :> Dict("n" :> Num(1))) @@ "s2" :> Dict("count" :> Num(0)),
     "s2" :> List(<<Num(7)>>)}

ConfigPaths ==
    {<<>>, <<"a">>, <<"x">>, <<"c">>, <<"a", "b">>, <<"a", "c">>, <<"x", "a">>,
     <<"a", "b", "c">>, <<"c", "a", "b">>}
FieldPaths ==
    {<<"leads">>, <<"count">>, <<"ok">>, <<"c">>, <<"n", "x">>, <<"n", "a">>,
     <<"leads", "n">>, <<"count", "x">>, <<"c", "n", "x">>}
SecondSegments == {"output", "x", ""}
RefIds == {"s1", "s2"}

\* A reference with literal text before it and literal text or a further
\* reference after it: "p {{config.x}} s", "{{s1.output.leads}} {{config.a}}".
Embed(prefix, token, suffix) == Str(prefix \o token.v \o suffix)
EmbedPrefixes == {<<>>, <<"p", " ">>}
EmbedSuffixes ==
    {<<>>, <<" ", "s">>, <<"}">>, <<" ">> \o LB \o W_config \o DOT \o <<"a">> \o RB}
EmbedTokens ==
    {ConfigRef(<<"x">>), ConfigRef(<<"a", "b">>),
     StepRefPath("s1", "output", <<"leads">>),
     StepRefPath("s2", "x", <<"count">>)}

\* Values without a reference: strings the pattern does not match ("hi", "",
\* "{{}}", "{x}", "{{x}", "{{x}.y}") and values that are not strings.
ReferenceFree ==
    {Str(<<"h", "i">>), Str(<<>>), Str(LB \o RB), Str(<<"{", "x", "}">>),
     Str(LB \o <<"x", "}">>), Str(LB \o <<"x", "}", ".", "y", "}">>),
     Num(7), Num(0), Bool(TRUE), Bool(FALSE), None}

\* References of one segment and of two: "{{s1}}", "{{API_KEY}}", "{{s1.leads}}".
OneSegmentRef(w) == Str(LB \o Chars[w] \o RB)
TwoSegmentRef(w, f) == Str(LB \o Chars[w] \o DOT \o Chars[f] \o RB)
ShortRefWords == {"s1", "s2", "x", "API_KEY", ""}
ShortRefFields == {"leads", "count", "output", ""}
ShortRefs ==
    {OneSegmentRef(w) : w \in ShortRefWords \ {""}}
        \cup {TwoSegmentRef(w, f) : w \in ShortRefWords, f \in ShortRefFields}

\* Templates that are mappings and lists, nested.
ContainerTemplates ==
    {Dict("a" :> ConfigRef(<<"x">>) @@ "b" :> Str(<<"h", "i">>)),
     List(<<StepRefPath("s1", "output", <<"leads">>), Num(1), ConfigRef(<<"a", "b">>)>>),
     Dict("n" :> List(<<Dict("x" :> ConfigRef(<<"a", "b", "c">>)), Bool(TRUE)>>)
              @@ "c" :> None),
     List(<<List(<<StepRefPath("s2", "output", <<"count">>)>>), EmptyDict>>),
     EmptyDict,
     List(<<>>)}

ResolveTemplates ==
    ShortRefs \cup ContainerTemplates \cup
    {ConfigRef(p) : p \in ConfigPaths}
        \cup {StepRefPath(i, s, p) : i \in RefIds, s \in SecondSegments,
                                     p \in FieldPaths}
        \cup {Embed(pre, tok, suf) : pre \in EmbedPrefixes, tok \in EmbedTokens,
                                     suf \in EmbedSuffixes}
        \cup ReferenceFree

InitResolve ==
    /\ \E c \in ResolveConfigs :
          /\ workflow_json = [t |-> "file", v |-> WorkflowData(c, <<>>)]
          /\ workflow_config = workflow_json
    /\ graph = None
    /\ pc = "resolve"
    /\ \E o \in ResolveOutputs : state = [current_step |-> "", step_outputs |-> o]
    /\ node = ""
    /\ inputs = None
    /\ \E value \in ResolveTemplates : call = [t |-> "resolve", v |-> [value |-> value]]
    /\ executed = <<>>
    /\ returned = <<>>
    /\ error = NoError
    /\ run_result = None
    /\ warnings = <<>>
    /\ runs = 0

\* Mutant of ResolveCall: the resolver keeps what it resolved in step_outputs.
ResolveCall_Records ==
    /\ pc = "resolve"
    /\ inputs' = resolve_value(call.v.value, state.step_outputs,
                               workflow_config.v.config)
    /\ state' = [state EXCEPT !.step_outputs =
                     [k \in DOMAIN @ \cup {"s1"} |->
                         IF k = "s1" THEN Dict("leads" :> inputs') ELSE @[k]]]
    /\ pc' = "resolved"
    /\ UNCHANGED <<workflow_json, workflow_config, graph, node, call,
                   executed, returned, error, run_result, warnings, runs>>

\* One call _resolve_inputs(value, step_outputs, config)
ResolveCall ==
    /\ pc = "resolve"
    /\ inputs' = resolve_inputs(call.v.value, state.step_outputs,
                                workflow_config.v.config)
    /\ pc' = "resolved"
    /\ UNCHANGED <<workflow_json, workflow_config, graph, state, node, call,
                   executed, returned, error, run_result, warnings, runs>>

\* A second call _resolve_inputs(value, step_outputs, config) with the
\* arguments of the first, as they are after it.
ResolveAgain ==
    /\ pc = "resolved"
    /\ run_result' = resolve_inputs(call.v.value, state.step_outputs,
                                    workflow_config.v.config)
    /\ pc' = "resolved_again"
    /\ UNCHANGED <<workflow_json, workflow_config, graph, state, node, inputs,
                   call, executed, returned, error, warnings, runs>>

NextResolve ==
    \/ ResolveCall
    \/ ResolveAgain

SpecResolve == InitResolve /\ [][NextResolve]_vars

RECURSIVE ClaimedConfigWalk(_, _)
\* The walk as C8 states it: the value found, an empty mapping when a key is
\* missing at a level or the value reached there is not a mapping.
ClaimedConfigWalk(value, path) ==
    IF path = <<>> THEN value
    ELSE IF value.t # "dict" THEN EmptyDict
    ELSE IF Head(path) \notin DOMAIN value.v THEN EmptyDict
    ELSE ClaimedConfigWalk(value.v[Head(path)], Tail(path))

\* C8: {{config.p1...pk}} resolves to the value found by walking the static
\* configuration through p1..pk, and to an empty mapping, with no exception,
\* when a key is missing at a level, also when the value reached at that
\* level is not a mapping.
C8_ConfigWalk ==
    pc = "resolved" =>
        \A p \in ConfigPaths :
            call.v.value = ConfigRef(p) =>
                inputs = ClaimedConfigWalk(workflow_config.v.config, p)

\* C9 as claimed: a reference of three segments or more to a step id that has
\* no recorded output resolves to an empty mapping.
C9_Original ==
    pc = "resolved" =>
        \A i \in RefIds, s \in SecondSegments, p \in FieldPaths :
            (call.v.value = StepRefPath(i, s, p)
                 /\ i \notin DOMAIN state.step_outputs)
                => inputs = EmptyDict

\* C9, amended: a reference of three segments or more to a step id that has
\* no recorded output is not resolved: the string is returned unchanged.
C9_AbsentStepLeftUnresolved ==
    pc = "resolved" =>
        \A i \in RefIds, s \in SecondSegments, p \in FieldPaths :
            (call.v.value = StepRefPath(i, s, p)
                 /\ i \notin DOMAIN state.step_outputs)
                => inputs = call.v.value

C9_Witness ==
    /\ pc = "resolved"
    /\ call.v.value = StepRefPath("s2", "output", <<"leads">>)
    /\ DOMAIN state.step_outputs = {"s1"}
    /\ inputs = call.v.value

RECURSIVE HasPath(_, _)
\* Every segment of path is a key of the mapping reached before it.
HasPath(value, path) ==
    \/ path = <<>>
    \/ /\ value.t = "dict"
       /\ Head(path) \in DOMAIN value.v
       /\ HasPath(value.v[Head(path)], Tail(path))

RECURSIVE AtPath(_, _)
\* value[f1][f2]...[fk]
AtPath(value, path) ==
    IF path = <<>> THEN value ELSE AtPath(value.v[Head(path)], Tail(path))

\* C10: a reference {{id.second.f1...fk}} to a step with a recorded output
\* resolves, whatever the second segment, to the value stored at f1..fk in
\* that output, as it is stored: list, mapping, number, boolean, string, null.
C10_StoredValueAsIs ==
    pc = "resolved" =>
        \A i \in RefIds, s \in SecondSegments, p \in FieldPaths :
            (/\ call.v.value = StepRefPath(i, s, p)
             /\ i \in DOMAIN state.step_outputs
             /\ HasPath(state.step_outputs[i], p))
                => inputs = AtPath(state.step_outputs[i], p)

C10_Witness ==
    /\ pc = "resolved"
    /\ call.v.value = StepRefPath("s1", "x", <<"leads">>)
    /\ inputs = List(<<Num(1), Num(2), Num(3)>>)

\* C11: when the first {{...}} occurrence of a string is a reference whose
\* value is found, the result is that value alone: the literal text before
\* and after the occurrence and every further {{...}} occurrence of the
\* string are dropped, nothing is concatenated.
C11_FirstReferenceReplacesString ==
    pc = "resolved" =>
        \A pre \in EmbedPrefixes, suf \in EmbedSuffixes :
            /\ \A p \in ConfigPaths :
                  (/\ call.v.value = Embed(pre, ConfigRef(p), suf)
                   /\ HasPath(workflow_config.v.config, p))
                      => inputs = AtPath(workflow_config.v.config, p)
            /\ \A i \in RefIds, s \in SecondSegments, p \in FieldPaths :
                  (/\ call.v.value = Embed(pre, StepRefPath(i, s, p), suf)
                   /\ i \in DOMAIN state.step_outputs
                   /\ HasPath(state.step_outputs[i], p))
                      => inputs = AtPath(state.step_outputs[i], p)

C11_Witness ==
    /\ pc = "resolved"
    /\ call.v.value = Embed(<<"p", " ">>, ConfigRef(<<"x">>),
                            <<" ">> \o LB \o W_config \o DOT \o <<"a">> \o RB)
    /\ inputs = Num(9)

\* The string cs holds an occurrence of {{...}}: two opening braces, one
\* character or more none of which is a closing brace, two closing braces.
HasPattern(cs) ==
    \E i, j \in 1..Len(cs) :
        /\ i + 2 < j
        /\ j + 1 <= Len(cs)
        /\ cs[i] = "{" /\ cs[i + 1] = "{"
        /\ cs[j] = "}" /\ cs[j + 1] = "}"
        /\ \A k \in (i + 2)..(j - 1) : cs[k] # "}"

\* C12: a string without an occurrence of {{...}} and a value that is a
\* number, a boolean or null are returned as they are, whatever step_outputs
\* and the static configuration hold.
C12_IdentityOnReferenceFree ==
    pc = "resolved" =>
        ((\/ call.v.value.t \in {"num", "bool", "none"}
          \/ call.v.value.t = "str" /\ ~HasPattern(call.v.value.v))
            => inputs = call.v.value)

C12_Witness ==
    /\ pc = "resolved"
    /\ call.v.value = Str(LB \o <<"x", "}", ".", "y", "}">>)
    /\ inputs = call.v.value
    /\ DOMAIN state.step_outputs = {"s1", "s2"}
    /\ workflow_config.v.config # EmptyDict

RECURSIVE ClaimedResolve(_, _, _)
\* The resolved template as C22 states it: the same keys, the same length,
\* every leaf resolved.
ClaimedResolve(value, step_outputs, static_config) ==
    IF value.t = "dict"
    THEN Dict([k \in DOMAIN value.v |->
                  ClaimedResolve(value.v[k], step_outputs, static_config)])
    ELSE IF value.t = "list"
    THEN List([i \in 1..Len(value.v) |->
                  ClaimedResolve(value.v[i], step_outputs, static_config)])
    ELSE IF value.t = "str" THEN resolve_str(value, step_outputs, static_config)
    ELSE value

\* C22: a mapping template resolves to a mapping with the same keys and a
\* list template to a list of the same length, element by element and at
\* every depth.
C22_ContainersKeepShape ==
    (pc = "resolved" /\ call.v.value \in ContainerTemplates) =>
        /\ inputs.t = call.v.value.t
        /\ DOMAIN inputs.v = DOMAIN call.v.value.v
        /\ inputs = ClaimedResolve(call.v.value, state.step_outputs,
                                   workflow_config.v.config)

\* C28: a reference of one segment or of two whose first segment is not
\* config is returned as the string it is, whether its first segment names a
\* step with a recorded output or not.
C28_ShortReferenceUnresolved ==
    pc = "resolved" =>
        /\ \A w \in ShortRefWords \ {""} :
              call.v.value = OneSegmentRef(w) => inputs = call.v.value
        /\ \A w \in ShortRefWords, f \in ShortRefFields :
              call.v.value = TwoSegmentRef(w, f) => inputs = call.v.value

C28_Witness ==
    /\ pc = "resolved"
    /\ call.v.value = TwoSegmentRef("s1", "leads")
    /\ "s1" \in DOMAIN state.step_outputs
    /\ "leads" \in DOMAIN state.step_outputs["s1"].v
    /\ inputs = call.v.value

RECURSIVE ClaimedOutputWalk(_, _)
\* The walk as C29 states it: a segment missing from a mapping gives an
\* empty mapping, a segment applied to a value that is no mapping is skipped.
ClaimedOutputWalk(value, path) ==
    IF path = <<>> THEN value
    ELSE IF value.t # "dict" THEN ClaimedOutputWalk(value, Tail(path))
    ELSE IF Head(path) \notin DOMAIN value.v
         THEN ClaimedOutputWalk(EmptyDict, Tail(path))
    ELSE ClaimedOutputWalk(value.v[Head(path)], Tail(path))

\* C29: a reference to a step with a recorded output resolves to the walk of
\* that output through the field segments, a missing segment giving an empty
\* mapping and a segment on a value that is no mapping being skipped; no
\* exception is raised.
C29_OutputWalkNeverRaises ==
    pc = "resolved" =>
        \A i \in RefIds, s \in SecondSegments, p \in FieldPaths :
            (/\ call.v.value = StepRefPath(i, s, p)
             /\ i \in DOMAIN state.step_outputs)
                => /\ ~IsRaise(inputs)
                   /\ inputs = ClaimedOutputWalk(state.step_outputs[i], p)

C29_Witness ==
    /\ pc = "resolved"
    /\ call.v.value = StepRefPath("s1", "output", <<"count", "x">>)
    /\ "s1" \in DOMAIN state.step_outputs
    /\ "count" \in DOMAIN state.step_outputs["s1"].v
    /\ inputs = Num(3)

MaxNodeSteps == 2

\* An output recorded before the invocation.
PreviousOutput == Dict("leads" :> List(<<Num(9)>>))

NodeStepLists ==
    {s \in UNION {[1..n -> StepSpecs] : n \in 1..MaxNodeSteps} :
        \A i, j \in 1..Len(s) : s[i].id = s[j].id => i = j}

InitNode ==
    /\ \E s \in NodeStepLists :
          /\ workflow_json = [t |-> "file", v |-> WorkflowData(StaticConfig, s)]
          /\ workflow_config = workflow_json
          /\ graph = build_graph(workflow_config)
          /\ node = s[1].id
    /\ pc = "running"
    /\ \E o \in {<<>>, [id \in StepIds |-> PreviousOutput]} :
          state = [current_step |-> "", step_outputs |-> o]
    /\ inputs = None
    /\ call = None
    /\ executed = <<>>
    /\ returned = <<>>
    /\ error = NoError
    /\ run_result = None
    /\ warnings = <<>>
    /\ runs = 1

NextNodes ==
    \/ NodeEnter
    \/ AgentReturns
    \/ AgentRaises
    \/ Finish

SpecNode == InitNode /\ [][NextNodes]_vars

EchoExecute(mapping) == Dict("y" :> mapping)

\* The inputs of step A.
EchoInputsA ==
    {Dict("x" :> Num(n)) : n \in 0..2}
        \cup {Dict("x" :> Num(1) @@ "n" :> Str(<<"h", "i">>))}
\* The inputs of step B: {"v": "{{A.output.y}}"}, and the like.
EchoInputsB ==
    {Dict(k :> StepRefPath("A", "output", path)) :
        k \in {"v", "x"}, path \in {<<"y">>, <<"y", "x">>}}
EchoConfigs == {StaticConfig, EmptyDict}

EchoStep(id, template, output_schema) ==
    [id |-> id, agent |-> "Echo", inputs |-> template,
     instructions |-> Str(<<"g", "o">>), tools |-> List(<<>>),
     output_schema |-> output_schema]

InitEcho ==
    /\ \E c \in EchoConfigs, a \in EchoInputsA, b \in EchoInputsB :
          workflow_json =
              [t |-> "file",
               v |-> WorkflowData(c, <<EchoStep("A", a, <<"y">>),
                                       EchoStep("B", b, <<>>)>>)]
    /\ workflow_config = None
    /\ graph = None
    /\ pc = "start"
    /\ state = InitialState
    /\ node = ""
    /\ inputs = None
    /\ call = None
    /\ executed = <<>>
    /\ returned = <<>>
    /\ error = NoError
    /\ run_result = None
    /\ warnings = <<>>
    /\ runs = 0

\* node_function of a step of the scenario, Echo being in AGENT_REGISTRY.
EchoNodeEnter == NodeEnterWith({"Echo"})

\* The Echo agent's execute returns.
EchoReturns == AgentReturnsOneOf({EchoExecute(inputs)})

NextEcho ==
    \/ load_workflow
    \/ BuildGraph
    \/ Execute
    \/ EchoNodeEnter
    \/ EchoReturns
    \/ Finish

SpecEcho == InitEcho /\ [][NextEcho]_vars

\* The workflow is the one of the scenario: config {"min_score": 50}, A with
\* inputs {"x": 1}, B with inputs {"v": "{{A.output.y}}"}.
IsScenario ==
    /\ Loaded
    /\ workflow_config.v.config = StaticConfig
    /\ Steps[1].inputs = Dict("x" :> Num(1))
    /\ Steps[2].inputs = Dict("v" :> StepRefPath("A", "output", <<"y">>))

\* C19 as claimed: the result of the scenario has result["A"]["y"] = {"x": 1}
\* and result["B"]["y"]["x"] = {"x": 1}.
C19_Original ==
    (IsScenario /\ pc = "done") =>
        /\ run_result.v["A"].v["y"] = Dict("x" :> Num(1))
        /\ "x" \in DOMAIN run_result.v["B"].v["y"].v
        /\ run_result.v["B"].v["y"].v["x"] = Dict("x" :> Num(1))

\* C19, amended: the result of the scenario has result["A"] = {"y": {"x": 1}}
\* and result["B"] = {"y": {"v": {"x": 1}}}: B echoes its resolved inputs,
\* whose only key is v; and whatever mapping A is given, a step B with the
\* inputs {k: "{{A.output.y}}"} ends with result["B"]["y"][k] equal to it.
C19_EchoScenario ==
    /\ (IsScenario /\ pc = "done") =>
            /\ run_result.v["A"] = Dict("y" :> Dict("x" :> Num(1)))
            /\ run_result.v["B"] = Dict("y" :> Dict("v" :> Dict("x" :> Num(1))))
    /\ pc = "done" =>
            /\ DOMAIN run_result.v = {"A", "B"}
            /\ run_result.v["A"].v["y"] = Steps[1].inputs
            /\ \A k \in {"v", "x"} :
                  Steps[2].inputs = Dict(k :> StepRefPath("A", "output", <<"y">>))
                      => run_result.v["B"] = Dict("y" :> Dict(k :> Steps[1].inputs))

C19_Witness ==
    /\ IsScenario
    /\ pc = "done"
    /\ runs = 1
    /\ DOMAIN run_result.v["B"].v["y"].v = {"v"}
    /\ run_result.v["B"].v["y"].v["v"] = Dict("x" :> Num(1))

(***************************************************************************)
(* ResponseTrackerAgent.execute on its own: one call on an inputs mapping  *)
(* whose sent_status is a list of send records.                            *)
(***************************************************************************)
\* Longest sent_status list.
MaxSent == 3

W_sent == Str(<<"s", "e", "n", "t">>)
W_simulated == Str(<<"s", "i", "m", "u", "l", "a", "t", "e", "d">>)
W_failed == Str(<<"f", "a", "i", "l", "e", "d">>)

\* The send records: {"email": ..., "status": ...}
SentRecords ==
    {Dict("email" :> Str(<<e>>) @@ "status" :> st) :
        e \in {"p", "q"}, st \in {W_sent, W_simulated, W_failed}}

SentLists == UNION {[1..n -> SentRecords] : n \in 0..MaxSent}

\* What _simulate_engagement may return for a send record: the flags are
\* drawn at random, clicked and replied only when opened, meeting_booked only
\* when replied; lead and company are None for a record without them.
Engagements(email_status) ==
    {Dict("email" :> email_status.v["email"] @@ "lead" :> None
          @@ "company" :> None
          @@ "opened" :> Bool(o) @@ "clicked" :> Bool(c)
          @@ "replied" :> Bool(r) @@ "meeting_booked" :> Bool(m)) :
        <<o, c, r, m>> \in {f \in BOOLEAN \X BOOLEAN \X BOOLEAN \X BOOLEAN :
                                /\ f[2] => f[1]
                                /\ f[3] => f[1]
                                /\ f[4] => f[3]}}

\* if status.get('status') in ['sent', 'simulated']
Tracked(status) == status.v["status"] \in {W_sent, W_simulated}

RECURSIVE TrackedOf(_)
\* The send records of the list for which an engagement is appended, in order.
TrackedOf(sent_status) ==
    IF sent_status = <<>> THEN <<>>
    ELSE IF Tracked(Head(sent_status))
         THEN <<Head(sent_status)>> \o TrackedOf(Tail(sent_status))
         ELSE TrackedOf(Tail(sent_status))

RECURSIVE EngagementLists(_)
\* The lists of one engagement for each record of tracked, in order.
EngagementLists(tracked) ==
    IF tracked = <<>> THEN {<<>>}
    ELSE {<<e>> \o r : e \in Engagements(Head(tracked)),
                       r \in EngagementLists(Tail(tracked))}

\* The lists responses may be after the loop.
ResponsesOf(sent_status) == EngagementLists(TrackedOf(sent_status))

\* ResponseTrackerAgent.execute after the loop: total = len(responses); the
\* rates opened/total, replied/total, meetings/total are formatted, which
\* raises ZeroDivisionError when total is 0; then {'responses': responses}.
ResponseTrackerExecute(responses) ==
    IF Len(responses) = 0
    THEN Raise([type |-> "ZeroDivisionError", arg |-> "division by zero"])
    ELSE Dict("responses" :> List(responses))

InitTracker ==
    /\ workflow_json = FileMissing
    /\ workflow_config = None
    /\ graph = None
    /\ pc = "in_execute"
    /\ state = InitialState
    /\ node = "s1"
    /\ \E l \in SentLists :
          inputs = Dict("campaign_id" :> Str(<<"c">>) @@ "sent_status" :> List(l))
    /\ call = [t |-> "agent",
               v |-> [step_id |-> "s1", agent_name |-> "ResponseTrackerAgent",
                      output_schema |-> <<"responses">>]]
    /\ executed = <<"s1">>
    /\ returned = <<>>
    /\ error = NoError
    /\ run_result = None
    /\ warnings = <<>>
    /\ runs = 1

\* execute returns its output.
TrackerReturns ==
    /\ pc = "in_execute"
    /\ \E responses \in ResponsesOf(inputs.v["sent_status"].v) :
          LET output == ResponseTrackerExecute(responses)
          IN /\ ~IsRaise(output)
             /\ returned' = ("s1" :> output)
             /\ warnings' = warnings \o validate_output(call.v.step_id,
                                                        call.v.output_schema,
                                                        output)
    /\ pc' = "returned"
    /\ UNCHANGED <<workflow_json, workflow_config, graph, state, node, inputs,
                   call, executed, error, run_result, runs>>

\* execute raises.
TrackerRaises ==
    /\ pc = "in_execute"
    /\ \E responses \in ResponsesOf(inputs.v["sent_status"].v) :
          LET output == ResponseTrackerExecute(responses)
          IN /\ IsRaise(output)
             /\ error' = output.v
    /\ pc' = "failed"
    /\ UNCHANGED <<workflow_json, workflow_config, graph, state, node, inputs,
                   call, executed, returned, run_result, warnings, runs>>

NextTracker ==
    \/ TrackerReturns
    \/ TrackerRaises

SpecTracker == InitTracker /\ [][NextTracker]_vars

\* C30: for every sent_status list, the empty one and one without a sent or
\* simulated record too, execute returns {"responses": [...]} with one entry
\* for each sent or simulated record, in their order, and raises nothing.
C30_TrackerNeverFails ==
    pc # "in_execute" =>
        LET tracked == TrackedOf(inputs.v["sent_status"].v)
        IN /\ pc = "returned"
           /\ error = NoError
           /\ DOMAIN returned["s1"].v = {"responses"}
           /\ returned["s1"].v["responses"].t = "list"
           /\ Len(returned["s1"].v["responses"].v) = Len(tracked)
           /\ \A i \in 1..Len(tracked) :
                 returned["s1"].v["responses"].v[i].v["email"]
                     = tracked[i].v["email"]

(***************************************************************************)
(* tool_loader.py: load_tools_config(step) on its own, for a step with     *)
(* tools and an environment.                                               *)
(***************************************************************************)
\* String leaves of a tool config: placeholders, a step reference, tokens the
\* pattern does not match, plain text.
ToolLeaves ==
    { Str(LB \o <<"A", "P", "I", "_", "K", "E", "Y">> \o RB),
      Str(<<"a">> \o LB \o <<"A">> \o RB \o <<"b">> \o LB \o <<"B">> \o RB),
      Str(LB \o <<"A">> \o RB \o LB \o <<"A">> \o RB),
      Str(LB \o W_s1 \o DOT \o W_output \o DOT \o W_leads \o RB),
      Str(LB \o <<"A", "b">> \o RB),
      Str(LB \o <<"A">>),
      Str(LB \o RB),
      Str(<<"{">> \o LB \o <<"A">> \o RB \o <<"}">>),
      Str(<<"h", "i">>) }

\* Tool configs: a leaf at the top and one inside a list inside a mapping.
ToolConfigs ==
    { Dict("key" :> l1 @@ "n" :> Dict("l" :> List(<<l2, Num(1)>>))) :
          l1 \in ToolLeaves, l2 \in ToolLeaves }

\* The tools lists of a step: one tool, or one followed by a tool that has no
\* config.
ToolLists ==
    { <<Dict("name" :> Str(<<"x">>) @@ "config" :> c)>> : c \in ToolConfigs }
        \cup { <<Dict("name" :> Str(<<"x">>) @@ "config" :> c),
                 Dict("name" :> Str(<<"y">>))>> : c \in ToolConfigs }

\* Environments: the variables that are set, with their values.
Environments ==
    { <<>>,
      "A" :> <<"k">>,
      "A" :> <<>> @@ "B" :> <<"v">>,
      "A" :> <<"k">> @@ "B" :> <<"v">> @@ "API_KEY" :> <<"x", "y">>,
      "B" :> <<"A">> }

InitTools ==
    /\ workflow_json = FileMissing
    /\ workflow_config = None
    /\ graph = None
    /\ pc = "load_tools"
    /\ \E outputs \in {<<>>, "s1" :> Dict("leads" :> Num(7))} :
          state = [InitialState EXCEPT !.step_outputs = outputs]
    /\ node = "s2"
    /\ inputs = None
    /\ \E l \in ToolLists, env \in Environments :
          call = [t |-> "tools",
                  v |-> [step |-> [id |-> "s2", tools |-> List(l)], env |-> env]]
    /\ executed = <<>>
    /\ returned = <<>>
    /\ error = NoError
    /\ run_result = None
    /\ warnings = <<>>
    /\ runs = 1

\* tools_config = load_tools_config(step)
LoadTools ==
    /\ pc = "load_tools"
    /\ inputs' = load_tools_config(call.v.step, call.v.env)
    /\ pc' = "tools_loaded"
    /\ UNCHANGED <<workflow_json, workflow_config, graph, state, node, call,
                   executed, returned, error, run_result, warnings, runs>>

NextTools == LoadTools

SpecTools == InitTools /\ [][NextTools]_vars

RECURSIVE ClaimedLeaf(_, _, _)
\* One pass over a string from index i: each placeholder becomes the value of
\* its variable, nothing when the variable is not set; all else is copied.
ClaimedLeaf(s, i, env) ==
    IF i > Len(s) THEN <<>>
    ELSE IF EnvMatchAt(s, i)
         THEN LET k == NameEnd(s, i + 2)
                  name == Join(SubSeq(s, i + 2, k - 1))
              IN (IF name \in DOMAIN env THEN env[name] ELSE <<>>)
                     \o ClaimedLeaf(s, k + 2, env)
    ELSE <<s[i]>> \o ClaimedLeaf(s, i + 1, env)

RECURSIVE ClaimedToolConfig(_, _)
ClaimedToolConfig(value, env) ==
    IF value.t = "str" THEN Str(ClaimedLeaf(value.v, 1, env))
    ELSE IF value.t = "dict"
    THEN Dict([k \in DOMAIN value.v |-> ClaimedToolConfig(value.v[k], env)])
    ELSE IF value.t = "list"
    THEN List([i \in 1..Len(value.v) |-> ClaimedToolConfig(value.v[i], env)])
    ELSE value

====
